---- MODULE Spec2Model ----
(***************************************************************************)
(* Model of the DiscordData cog (src/__init__.py): the Page value object,  *)
(* the PaginatedView state machine, the ExperimentBrowserView ordering and *)
(* the lookup path of the `experiments` command.                           *)
(***************************************************************************)
EXTENDS Integers, Sequences, FiniteSets, TLC

(* ---------------------------------------------------------------------- *)
(* Bounds of the model                                                     *)
(* ---------------------------------------------------------------------- *)
MaxLen == 3            \* longest dataset handed to a PaginatedView
MaxPerPage == 2        \* largest per_page besides the browser's own 20
MaxDrift == 1          \* pages the cursor may run past either end
MaxStart == 1          \* starting_index ranges over -MaxStart..MaxStart
ExampleLen == 45       \* a three-page dataset for the browser's page size
MaxInflight == 2       \* handlers that may await edit_message at one time

\* ExperimentBrowserView passes per_page=20 (line 173)
ExperimentsPerPage == 20

VARIABLES
    data,                    \* PaginatedView.data
    per_page,                \* PaginatedView.per_page
    starting_index,          \* the constructor's starting_index argument
    index,                   \* PaginatedView.index
    previous_page_disabled,  \* PaginatedView.previous_page.disabled
    next_page_disabled,      \* PaginatedView.next_page.disabled
    message,                 \* the reply, as the last delivered edit left it
    lastOp,                  \* the handler that ran last
    raised,                  \* exception the last step of a handler ended with
    inflight,                \* edit_message calls awaiting their response
    calls                    \* get_page / reply-or-edit calls of the last handler

\* history of a session, kept for the properties only
VARIABLES
    trail,                   \* the view after each of the last three handlers
    displayed,               \* the slices handed out so far, concatenated
    failed                   \* whether a render or an edit has failed so far

VARIABLES
    page_args,               \* the arguments of the last Page(...) call
    page_dict,               \* Page.__dict__ of the constructed object
    page_raised,             \* exception raised by Page.__init__
    unpacked                 \* the mapping returned by Page.unpack()

VARIABLES
    sort_input,              \* the data handed to ExperimentBrowserView
    sort_output,             \* the list the view is built over
    sort_raised              \* exception raised by sorted(...)

VARIABLES
    build,                   \* build["experiments"] as fetched
    query,                   \* the command's `experiment` argument
    ratio,                   \* the scores fuzz.partial_ratio returns
    answer                   \* what the command replied

pagingVars == <<data, per_page, starting_index, index, previous_page_disabled,
                next_page_disabled, message, lastOp, raised, inflight, calls>>
histVars == <<trail, displayed, failed>>
pageVars == <<page_args, page_dict, page_raised, unpacked>>
sortVars == <<sort_input, sort_output, sort_raised>>
lookupVars == <<build, query, ratio, answer>>

vars == <<pagingVars, histVars, pageVars, sortVars, lookupVars>>

(* ---------------------------------------------------------------------- *)
(* Python primitives used by the code                                      *)
(* ---------------------------------------------------------------------- *)

\* list.__getitem__(slice(start, stop)): a negative bound counts from the
\* end, then both bounds are clipped to 0..len
PySliceBound(n, i) ==
    LET j == IF i < 0 THEN i + n ELSE i
    IN IF j < 0 THEN 0 ELSE IF j > n THEN n ELSE j

PySlice(s, start, stop) ==
    LET lo == PySliceBound(Len(s), start)
        hi == PySliceBound(Len(s), stop)
    IN IF hi <= lo THEN << >> ELSE SubSeq(s, lo + 1, hi)

\* int // int with a positive divisor: floor division
PyFloorDiv(a, b) == IF a >= 0 THEN a \div b ELSE -(((-a) + b - 1) \div b)

\* math.ceil(a / b) for a >= 0, b > 0
PyCeilDiv(a, b) == IF a % b = 0 THEN a \div b ELSE (a \div b) + 1

(* ---------------------------------------------------------------------- *)
(* PaginatedView                                                           *)
(* ---------------------------------------------------------------------- *)
NoMessage == [sent |-> FALSE]

PerPages == (1..MaxPerPage) \cup {ExperimentsPerPage}

\* the decorators' defaults: Previous is built disabled, Next enabled
ButtonDefaults == [previous |-> TRUE, next |-> FALSE]

\* a variant whose slice stops one item early
get_page_data_short(i) == PySlice(data, i, i + per_page - 1)

get_page_data(i) == PySlice(data, i, i + per_page)

\* a variant that rounds the quotient down (len(self.data) // self.per_page)
pages_rounded_down == Len(data) \div per_page

pages == PyCeilDiv(Len(data), per_page)

current_page(i) == PyFloorDiv(i, per_page) + 1

\* a variant that tests the upper bound with == instead of >=
update_buttons_at_end_only(i) ==
    [previous |-> i <= 0, next |-> i = Len(data) - per_page]

update_buttons(i) ==
    [previous |-> i <= 0, next |-> i >= Len(data) - per_page]

\* get_page of the concrete view: a Page built from the slice and the
\* "Page x/y" title
get_page(i) == [items |-> get_page_data(i), page |-> current_page(i), pages |-> pages]

\* the payload of ctx.reply / edit_message: the page together with the view
\* (cursor: the index the page was rendered at, kept for the properties)
Outbound(i, buttons) ==
    [sent |-> TRUE, items |-> get_page(i).items, page |-> get_page(i).page,
     pages |-> get_page(i).pages,
     previous_disabled |-> buttons.previous, next_disabled |-> buttons.next,
     cursor |-> i]

\* the (len(data), per_page) pairs a view is built with: every small pair,
\* and the browser's page size over a dataset of three pages
Shapes ==
    [len : 0..MaxLen, per_page : PerPages]
        \cup {[len |-> ExampleLen, per_page |-> ExperimentsPerPage]}

PagingInit ==
    /\ \E shape \in Shapes :
        /\ data = [k \in 1..shape.len |-> k]
        /\ per_page = shape.per_page
    /\ starting_index \in (-MaxStart)..MaxStart
    /\ index = starting_index
    /\ previous_page_disabled = ButtonDefaults.previous
    /\ next_page_disabled = ButtonDefaults.next
    /\ message = NoMessage
    /\ lastOp = "init"
    /\ raised = "none"
    /\ inflight = << >>
    /\ calls = [get_page |-> 0, update |-> 0]

\* view.get_page() followed by ctx.reply(..., view=view): the first render
reply ==
    /\ lastOp = "init"
    /\ lastOp' = "reply"
    /\ \E ok \in BOOLEAN :
        IF ok
        THEN /\ message' = Outbound(index, [previous |-> previous_page_disabled,
                                             next |-> next_page_disabled])
             /\ raised' = "none"
             /\ calls' = [get_page |-> 1, update |-> 1]
        ELSE /\ message' = message
             /\ raised' = "render"
             /\ calls' = [get_page |-> 1, update |-> 0]
    /\ UNCHANGED <<data, per_page, starting_index, index,
                   previous_page_disabled, next_page_disabled, inflight>>
    /\ UNCHANGED <<pageVars, sortVars, lookupVars>>

\* update_page when get_page returned: edit_message is called with the page
\* and the view, and the handler awaits the response
Issue(payload) ==
    /\ inflight' = Append(inflight, payload)
    /\ raised' = "none"
    /\ calls' = [get_page |-> 1, update |-> 1]

\* update_page when get_page raised: the exception leaves the handler
Propagate ==
    /\ inflight' = inflight
    /\ raised' = "render"
    /\ calls' = [get_page |-> 1, update |-> 0]

\* a variant that calls update_buttons before the cursor is moved
Navigate_stale_buttons(newIndex, op) ==
    /\ message.sent
    /\ Len(inflight) < MaxInflight
    /\ index' = newIndex
    /\ previous_page_disabled' = update_buttons(index).previous
    /\ next_page_disabled' = update_buttons(index).next
    /\ lastOp' = op
    /\ \E ok \in BOOLEAN :
        IF ok THEN Issue(Outbound(newIndex, update_buttons(index)))
        ELSE Propagate
    /\ UNCHANGED <<data, per_page, starting_index, message>>
    /\ UNCHANGED <<pageVars, sortVars, lookupVars>>

\* a variant that renders the page before the cursor is moved
Navigate_render_first(newIndex, op) ==
    /\ message.sent
    /\ Len(inflight) < MaxInflight
    /\ index' = newIndex
    /\ previous_page_disabled' = update_buttons(newIndex).previous
    /\ next_page_disabled' = update_buttons(newIndex).next
    /\ lastOp' = op
    /\ \E ok \in BOOLEAN :
        IF ok THEN Issue(Outbound(index, update_buttons(newIndex)))
        ELSE Propagate
    /\ UNCHANGED <<data, per_page, starting_index, message>>
    /\ UNCHANGED <<pageVars, sortVars, lookupVars>>

\* a variant that swallows a render failure and edits the message with the
\* page of the cursor it started from
Navigate_swallow(newIndex, op) ==
    /\ message.sent
    /\ Len(inflight) < MaxInflight
    /\ index' = newIndex
    /\ previous_page_disabled' = update_buttons(newIndex).previous
    /\ next_page_disabled' = update_buttons(newIndex).next
    /\ lastOp' = op
    /\ \E ok \in BOOLEAN :
        IF ok THEN Issue(Outbound(newIndex, update_buttons(newIndex)))
        ELSE /\ inflight' = Append(inflight, Outbound(index, update_buttons(newIndex)))
             /\ raised' = "render"
             /\ calls' = [get_page |-> 1, update |-> 1]
    /\ UNCHANGED <<data, per_page, starting_index, message>>
    /\ UNCHANGED <<pageVars, sortVars, lookupVars>>

\* a variant that restores the cursor and the buttons when the render fails
Navigate_rollback(newIndex, op) ==
    /\ message.sent
    /\ Len(inflight) < MaxInflight
    /\ lastOp' = op
    /\ \E ok \in BOOLEAN :
        IF ok
        THEN /\ index' = newIndex
             /\ previous_page_disabled' = update_buttons(newIndex).previous
             /\ next_page_disabled' = update_buttons(newIndex).next
             /\ Issue(Outbound(newIndex, update_buttons(newIndex)))
        ELSE /\ UNCHANGED <<index, previous_page_disabled, next_page_disabled>>
             /\ Propagate
    /\ UNCHANGED <<data, per_page, starting_index, message>>
    /\ UNCHANGED <<pageVars, sortVars, lookupVars>>

\* a button handler up to its suspension in edit_message: the cursor is
\* moved, update_buttons and get_page run, edit_message is called
Navigate(newIndex, op) ==
    /\ message.sent
    /\ Len(inflight) < MaxInflight
    /\ index' = newIndex
    /\ previous_page_disabled' = update_buttons(newIndex).previous
    /\ next_page_disabled' = update_buttons(newIndex).next
    /\ lastOp' = op
    /\ \E ok \in BOOLEAN :
        IF ok THEN Issue(Outbound(newIndex, update_buttons(newIndex)))
        ELSE Propagate
    /\ UNCHANGED <<data, per_page, starting_index, message>>
    /\ UNCHANGED <<pageVars, sortVars, lookupVars>>

\* a variant that steps back by one item instead of one page
previous_page_by_one ==
    /\ index - per_page >= -(MaxDrift * per_page) - MaxStart
    /\ Navigate(index - 1, "previous_page")

previous_page ==
    /\ index - per_page >= -(MaxDrift * per_page) - MaxStart
    /\ Navigate(index - per_page, "previous_page")

next_page ==
    /\ index + per_page <= Len(data) + MaxDrift * per_page
    /\ Navigate(index + per_page, "next_page")

Without(s, k) == [j \in 1..(Len(s) - 1) |-> IF j < k THEN s[j] ELSE s[j + 1]]

\* the response of one awaited edit_message arrives and its handler ends:
\* the message shows the edit, or the call raises
edit_message_done ==
    /\ \E k \in 1..Len(inflight), ok \in BOOLEAN :
        /\ inflight' = Without(inflight, k)
        /\ IF ok
           THEN message' = inflight[k] /\ raised' = "none"
           ELSE message' = message /\ raised' = "edit_message"
    /\ UNCHANGED <<data, per_page, starting_index, index, previous_page_disabled,
                   next_page_disabled, lastOp, calls>>
    /\ UNCHANGED <<pageVars, sortVars, lookupVars>>

(* ---------------------------------------------------------------------- *)
(* History of a session                                                    *)
(* ---------------------------------------------------------------------- *)
HistIdle ==
    /\ trail = << >>
    /\ displayed = << >>
    /\ failed = FALSE

\* a step of one of the handlers (reply or a button), not of a response
HandlerStep == lastOp' /= lastOp \/ index' /= index

LastTwo(s) == IF Len(s) <= 2 THEN s ELSE SubSeq(s, Len(s) - 1, Len(s))

\* the view as the handler that just ran left it
Snapshot ==
    [op |-> lastOp', index |-> index', previous |-> previous_page_disabled',
     next |-> next_page_disabled', items |-> get_page_data(index')]

RecordTrail ==
    /\ trail' = IF HandlerStep THEN Append(LastTwo(trail), Snapshot) ELSE trail
    /\ UNCHANGED <<displayed, failed>>

RecordDisplayed ==
    /\ displayed' = IF HandlerStep /\ calls'.update = 1
                    THEN displayed \o get_page_data(index') ELSE displayed
    /\ failed' = (failed \/ raised' /= "none")
    /\ UNCHANGED trail

(* ---------------------------------------------------------------------- *)
(* Page                                                                    *)
(* ---------------------------------------------------------------------- *)
MaxItems == 2          \* longest embeds / attachments list handed to Page

\* Python values, tagged by type
UNSET == [kind |-> "unset"]
None == [kind |-> "none"]
PyStr(s) == [kind |-> "str", s |-> s]
PyObj(name) == [kind |-> "obj", name |-> name]
PyList(l) == [kind |-> "list", l |-> l]

\* bool(v): _Unset.__bool__ returns False; empty str and list are falsy
PyBool(v) ==
    CASE v.kind = "unset" -> FALSE
      [] v.kind = "none" -> FALSE
      [] v.kind = "str" -> v.s /= ""
      [] v.kind = "list" -> v.l /= << >>
      [] OTHER -> TRUE

ListsOf(names) ==
    {PyList(l) : l \in UNION {[1..n -> names] : n \in 0..MaxItems}}

ContentValues == {UNSET, PyStr(""), PyStr("text")}
EmbedValues == {None, PyObj("embed1")}
EmbedsValues == {UNSET} \cup ListsOf({"embed2"})
AttachmentValues == {None, PyObj("file1")}
AttachmentsValues == {UNSET} \cup ListsOf({"file2"})

PageArgs ==
    [content : ContentValues, embed : EmbedValues, embeds : EmbedsValues,
     attachment : AttachmentValues, attachments : AttachmentsValues]

NoArgs == [called |-> FALSE]
NoDict == [built |-> FALSE]
NoMapping == [unpacked |-> FALSE]

\* a variant that tests truthiness (`if self.embeds:`) instead of identity
IsSet_truthy(v) == PyBool(v)

\* `self.embeds is not UNSET` / `self.attachments is not UNSET`
IsSet(v) == v /= UNSET

\* Page.__init__: the instance __dict__ it leaves, or the exception
Page__init__(a) ==
    IF a.embed /= None /\ IsSet(a.embeds)
    THEN [raised |-> "ValueError", dict |-> NoDict]
    ELSE IF a.attachment /= None /\ IsSet(a.attachments)
    THEN [raised |-> "ValueError", dict |-> NoDict]
    ELSE [raised |-> "none",
          dict |-> [built |-> TRUE,
                    content |-> a.content,
                    embeds |-> IF a.embed /= None
                               THEN PyList(<<a.embed.name>>) ELSE a.embeds,
                    attachments |-> IF a.attachment /= None
                                    THEN PyList(<<a.attachment.name>>)
                                    ELSE a.attachments]]

PageKeys == {"content", "embeds", "attachments"}

\* a variant that filters on truthiness (`if v`) instead of identity
Kept_truthy(v) == PyBool(v)

\* the filter of the dict comprehension in unpack: `v is not UNSET`
Kept(v) == v /= UNSET

unpack(d) ==
    [unpacked |-> TRUE,
     keys |-> {k \in PageKeys : Kept(d[k])},
     value |-> [k \in {k \in PageKeys : Kept(d[k])} |-> d[k]]]

PageIdle ==
    /\ page_args = NoArgs
    /\ page_dict = NoDict
    /\ page_raised = "none"
    /\ unpacked = NoMapping

\* Page(content=..., embed=..., embeds=..., attachment=..., attachments=...)
PageConstruct ==
    /\ ~page_args.called
    /\ \E a \in PageArgs :
        /\ page_args' = [called |-> TRUE, args |-> a]
        /\ page_dict' = Page__init__(a).dict
        /\ page_raised' = Page__init__(a).raised
    /\ UNCHANGED unpacked
    /\ UNCHANGED <<pagingVars, histVars, sortVars, lookupVars>>

\* page.unpack()
PageUnpack ==
    /\ page_dict.built
    /\ ~unpacked.unpacked
    /\ unpacked' = unpack(page_dict)
    /\ UNCHANGED <<page_args, page_dict, page_raised>>
    /\ UNCHANGED <<pagingVars, histVars, sortVars, lookupVars>>

PagingIdle ==
    /\ data = << >>
    /\ per_page = 1
    /\ starting_index = 0
    /\ index = 0
    /\ previous_page_disabled = ButtonDefaults.previous
    /\ next_page_disabled = ButtonDefaults.next
    /\ message = NoMessage
    /\ lastOp = "idle"
    /\ raised = "none"
    /\ inflight = << >>
    /\ calls = [get_page |-> 0, update |-> 0]
    /\ HistIdle

(* ---------------------------------------------------------------------- *)
(* Strings (sequences of one-character strings)                            *)
(* ---------------------------------------------------------------------- *)
Digits == {"0", "1", "2", "3", "4", "5", "6", "7", "8", "9"}

DigitValue(c) ==
    CASE c = "0" -> 0 [] c = "1" -> 1 [] c = "2" -> 2 [] c = "3" -> 3
      [] c = "4" -> 4 [] c = "5" -> 5 [] c = "6" -> 6 [] c = "7" -> 7
      [] c = "8" -> 8 [] c = "9" -> 9

\* ord(c) for the characters the model's strings are made of
CodePoint(c) ==
    CASE c = "-" -> 45
      [] c \in Digits -> 48 + DigitValue(c)
      [] c = "B" -> 66 [] c = "F" -> 70 [] c = "O" -> 79
      [] c = "a" -> 97 [] c = "b" -> 98 [] c = "d" -> 100
      [] c = "f" -> 102 [] c = "i" -> 105 [] c = "o" -> 111
      [] c = "x" -> 120 [] c = "y" -> 121 [] c = "z" -> 122

\* str.lower() on one character
LowerChar(c) ==
    CASE c = "B" -> "b" [] c = "F" -> "f" [] c = "O" -> "o" [] OTHER -> c

\* str.lower()
lower(s) == [k \in 1..Len(s) |-> LowerChar(s[k])]

\* s[:n]
Prefix(s, n) == IF Len(s) <= n THEN s ELSE SubSeq(s, 1, n)

\* s.replace("-", "")
StripDashes(s) == SelectSeq(s, LAMBDA c : c /= "-")

\* str.isdigit(): non-empty and every character a digit
isdigit(s) == s /= << >> /\ \A k \in 1..Len(s) : s[k] \in Digits

\* int(s) for a string of digits
RECURSIVE int(_)
int(s) ==
    IF s = << >> THEN 0
    ELSE 10 * int(SubSeq(s, 1, Len(s) - 1)) + DigitValue(s[Len(s)])

\* str < str: lexicographic by code point
RECURSIVE StrLt(_, _)
StrLt(a, b) ==
    IF b = << >> THEN FALSE
    ELSE IF a = << >> THEN TRUE
    ELSE IF a[1] = b[1] THEN StrLt(Tail(a), Tail(b))
    ELSE CodePoint(a[1]) < CodePoint(b[1])

Reverse(s) == [k \in 1..Len(s) |-> s[Len(s) + 1 - k]]

(* ---------------------------------------------------------------------- *)
(* ExperimentBrowserView: the ordering of the records                      *)
(* ---------------------------------------------------------------------- *)
MaxExperiments == 3    \* longest dataset handed to ExperimentBrowserView

\* len("yyyy-mm")
KeyWidth == 7

ExperimentIds ==
    { <<"2", "0", "2", "4", "-", "0", "2", "-", "x">>,
      <<"2", "0", "2", "4", "-", "0", "2", "-", "z">>,
      <<"2", "0", "2", "3", "-", "1", "1", "-", "y">>,
      <<"b", "a", "d", "-", "i", "d">>,
      <<"b", "a", "d", "-", "i", "d", "-", "2">> }

SortableExperiments == {[id |-> i] : i \in ExperimentIds}

\* ExperimentBrowserView.sorter: an int or a str
sorter(experiment) ==
    LET experiment_id == Prefix(experiment.id, KeyWidth)
        key == StripDashes(experiment_id)
    IN IF isdigit(key) THEN [kind |-> "int", n |-> int(key)]
       ELSE [kind |-> "str", s |-> key]

\* `<` between two keys is only defined between two ints or two strs
Comparable(a, b) == a.kind = b.kind

KeyLt(a, b) == IF a.kind = "int" THEN a.n < b.n ELSE StrLt(a.s, b.s)

Sorted(l) == [raised |-> "none", list |-> l]
TypeError == [raised |-> "TypeError", list |-> << >>]

\* one insertion of list.sort: x goes after every element not greater than
\* it; a comparison between an int and a str raises TypeError
RECURSIVE Insort(_, _)
Insort(run, x) ==
    IF run = << >> THEN Sorted(<<x>>)
    ELSE LET last == run[Len(run)]
         IN IF ~Comparable(sorter(x), sorter(last)) THEN TypeError
            ELSE IF KeyLt(sorter(x), sorter(last))
            THEN LET r == Insort(SubSeq(run, 1, Len(run) - 1), x)
                 IN IF r.raised /= "none" THEN r
                    ELSE Sorted(Append(r.list, last))
            ELSE Sorted(Append(run, x))

RECURSIVE SortFrom(_, _)
SortFrom(run, rest) ==
    IF rest = << >> THEN Sorted(run)
    ELSE LET r == Insort(run, Head(rest))
         IN IF r.raised /= "none" THEN r ELSE SortFrom(r.list, Tail(rest))

\* sorted(data, key=self.sorter, reverse=True): the list is reversed, sorted
\* ascending and stable, and reversed again
sorted_reverse(l) ==
    LET r == SortFrom(<< >>, Reverse(l))
    IN IF r.raised /= "none" THEN r ELSE Sorted(Reverse(r.list))

SortInit ==
    /\ sort_input \in UNION {[1..n -> SortableExperiments] : n \in 0..MaxExperiments}
    /\ sort_output = << >>
    /\ sort_raised = "pending"

\* ExperimentBrowserView(data=...): sorted(...) then PaginatedView.__init__
ExperimentBrowserView__init__ ==
    /\ sort_raised = "pending"
    /\ sort_output' = sorted_reverse(sort_input).list
    /\ sort_raised' = sorted_reverse(sort_input).raised
    /\ UNCHANGED sort_input
    /\ UNCHANGED <<pagingVars, histVars, pageVars, lookupVars>>

(* ---------------------------------------------------------------------- *)
(* DiscordData.experiments: the lookup path                                *)
(* ---------------------------------------------------------------------- *)
MaxBuild == 2          \* most records in build["experiments"]

\* the three scores that matter around the threshold
Scores == {84, 85, 86}

Labels == { <<"F", "o">>, <<"f", "o">>, <<"b">> }
LookupIds == { <<"f", "o">>, <<"F", "o">> }
Queries == { << >>, <<"F", "O">>, <<"f", "o">>, <<"B">> }

LookupExperiments == [id : LookupIds, label : Labels]

\* the argument pairs partial_ratio can be called with
RatioPairs ==
    ({lower(l) : l \in Labels} \cup LookupIds)
        \X {lower(q) : q \in Queries \ {<< >>}}

\* fuzz.partial_ratio: an external scorer; two equal strings score 100
partial_ratio(a, b) == ratio[<<a, b>>]

\* a variant that accepts a score equal to the threshold
Accepts_at_threshold(score) == score >= 85

\* `fuzz.partial_ratio(...) > 85`
Accepts(score) == score > 85

\* the for loop: the position of the record it breaks on, 0 for its else
RECURSIVE Scan(_, _, _)
Scan(experiments, experiment, k) ==
    IF k > Len(experiments) THEN 0
    ELSE IF Accepts(partial_ratio(lower(experiments[k].label), experiment)) THEN k
    ELSE IF Accepts(partial_ratio(experiments[k].id, experiment)) THEN k
    ELSE Scan(experiments, experiment, k + 1)

LookupInit ==
    /\ build \in UNION {[1..n -> LookupExperiments] : n \in 0..MaxBuild}
    /\ query \in Queries
    /\ \E g \in [{p \in RatioPairs : p[1] /= p[2]} -> Scores] :
         ratio = [p \in RatioPairs |-> IF p[1] = p[2] THEN 100 ELSE g[p]]
    /\ answer = [kind |-> "pending"]

\* the command body after get_build
experiments ==
    /\ answer.kind = "pending"
    /\ IF query /= << >>
       THEN LET experiment == lower(query)
                found == Scan(build, experiment, 1)
            IN IF found = 0
               THEN answer' = [kind |-> "text", text |-> "No such experiment found."]
               ELSE answer' = [kind |-> "embed", experiment |-> build[found]]
       ELSE answer' = [kind |-> "view"]
    /\ UNCHANGED <<build, query, ratio>>
    /\ UNCHANGED <<pagingVars, histVars, pageVars, sortVars>>

(* ---------------------------------------------------------------------- *)
(* Properties of PaginatedView                                             *)
(* ---------------------------------------------------------------------- *)
Min(a, b) == IF a <= b THEN a ELSE b
Clamp(x, lo, hi) == IF x < lo THEN lo ELSE IF x > hi THEN hi ELSE x

Navigated == lastOp \in {"previous_page", "next_page"}

\* C1: a fresh session (cursor 0, no navigation yet) over a non-empty
\* dataset that fits in one page reports one page, sends both buttons
\* disabled with its first render, and that render carries the whole dataset.
C1_SinglePageInitialRender ==
    (lastOp = "reply" /\ raised = "none" /\ starting_index = 0
        /\ Len(data) >= 1 /\ Len(data) <= per_page)
    => /\ message.pages = 1
       /\ message.previous_disabled
       /\ message.next_disabled
       /\ message.items = data

\* C2: for a non-empty dataset and any cursor reached from 0 the current slice is
\* items[c : c + pageSize] with c the cursor clamped into 0..len-1, so it
\* has min(pageSize, len - c) items and is never empty.
C2_SliceIsClampedWindow ==
    (Len(data) >= 1 /\ starting_index = 0) =>
        LET c == Clamp(index, 0, Len(data) - 1)
        IN /\ get_page_data(index) = SubSeq(data, c + 1, Min(c + per_page, Len(data)))
           /\ Len(get_page_data(index)) = Min(per_page, Len(data) - c)
           /\ Len(get_page_data(index)) /= 0

\* C3: in a session started at cursor 0, a retreat taken while the cursor
\* is <= 0 shows the same slice after
\* it as before it.
C3_RetreatAtStartHasNoVisibleEffect ==
    [][(lastOp' = "previous_page" /\ index' = index - per_page
            /\ starting_index = 0 /\ index <= 0)
        => get_page_data(index') = get_page_data(index)]_vars

\* C4: in a session started at cursor 0 the current page number is never
\* below 1.
C4_PageNumberAtLeastOne ==
    starting_index = 0 => current_page(index) >= 1

\* C5: an advance taken on the last page or beyond it leaves Next disabled,
\* and an advance taken beyond the end (every further advance) shows the
\* same slice as the advance before it.
C5_AdvanceIdempotentAtEnd ==
    [][(lastOp' = "next_page" /\ index' = index + per_page
            /\ index >= Len(data) - per_page)
        => /\ next_page_disabled'
           /\ (index >= Len(data) => get_page_data(index') = get_page_data(index))]_vars

C5_Witness ==
    /\ lastOp = "next_page"
    /\ Len(data) >= 1
    /\ starting_index = 0
    /\ index >= Len(data) + per_page
    /\ next_page_disabled
    /\ get_page_data(index) = get_page_data(index - per_page)

\* C6: after every advance or retreat the two flags are exactly the
\* functions of the new cursor: Previous disabled iff cursor <= 0, Next
\* disabled iff cursor >= len - pageSize.
C6_FlagsFollowCursor ==
    Navigated =>
        /\ previous_page_disabled = (index <= 0)
        /\ next_page_disabled = (index >= Len(data) - per_page)

C6_Witness ==
    /\ lastOp = "next_page"
    /\ index > 0
    /\ index < Len(data) - per_page
    /\ ~previous_page_disabled
    /\ ~next_page_disabled

\* C11: the page count is ceil(len(items) / pageSize), the least n with
\* n * pageSize >= len(items) (3 for 45 items by 20), and no step of a
\* session changes it.
C11_PageCountIsCeiling ==
    /\ [](pages * per_page >= Len(data) /\ (pages - 1) * per_page < Len(data))
    /\ [][pages' = pages]_vars

C11_Witness ==
    /\ Navigated
    /\ Len(data) = 45
    /\ per_page = 20
    /\ pages = 3
    /\ message.sent
    /\ message.pages = 3

\* C14: in every state reached by advance and retreat the cursor is one of
\* 0, pageSize, 2 * pageSize, ..., whatever starting_index the view was
\* built with.
C14_CursorPageAligned ==
    Navigated => (index >= 0 /\ index % per_page = 0)

\* the step of a button handler, with its render succeeding or failing
ButtonStep == lastOp' \in {"previous_page", "next_page"} /\ Len(inflight') >= Len(inflight)
                /\ <<index, lastOp, raised, inflight, calls>>' /= <<index, lastOp, raised, inflight, calls>>

\* C12: a navigation event is handled to completion before the next one is
\* processed: no handler moves the cursor while another handler's outbound
\* update is still awaited.
C12_HandlersRunToCompletion ==
    [][index' /= index => inflight = << >>]_vars

\* C13: a navigation event whose render succeeds makes exactly one outbound
\* update, and that update carries the page of the slice at the moved
\* cursor together with the flags computed from that cursor.
C13_OneUpdateFromNewCursor ==
    [][(index' /= index /\ raised' = "none")
        => /\ calls'.update = 1
           /\ Len(inflight') = Len(inflight) + 1
           /\ SubSeq(inflight', 1, Len(inflight)) = inflight
           /\ LET update == inflight'[Len(inflight')]
              IN /\ update.cursor = index'
                 /\ update.items = PySlice(data, index', index' + per_page)
                 /\ update.page = PyFloorDiv(index', per_page) + 1
                 /\ update.previous_disabled = (index' <= 0)
                 /\ update.next_disabled = (index' >= Len(data) - per_page)
                 /\ update.previous_disabled = previous_page_disabled'
                 /\ update.next_disabled = next_page_disabled']_vars

C13_Witness ==
    /\ lastOp = "next_page"
    /\ raised = "none"
    /\ calls.update = 1
    /\ Len(inflight) = 1
    /\ inflight[1].cursor = index
    /\ index = per_page
    /\ inflight[1].items /= << >>
    /\ message.cursor = 0
    /\ ~inflight[1].previous_disabled

\* C15: when the render fails in the first reply or in a button handler,
\* the handler ends with that exception after one get_page call and no
\* outbound update is made: nothing is sent and the message is untouched.
C15_RenderFailureSendsNothing ==
    [][(HandlerStep /\ raised' = "render")
        => /\ inflight' = inflight
           /\ message' = message
           /\ calls' = [get_page |-> 1, update |-> 0]]_vars

C15_Witness ==
    /\ lastOp = "previous_page"
    /\ raised = "render"
    /\ calls = [get_page |-> 1, update |-> 0]
    /\ inflight = << >>
    /\ message.sent
    /\ message.cursor /= index

\* C16: for a non-empty dataset and a session started at cursor 0 whose
\* buttons are only pressed while the view holds them enabled, the cursor
\* stays within 0..len-1, the slice is never empty and the page number
\* never exceeds the page count.
C16_GuardedCursorInRange ==
    (starting_index = 0 /\ Len(data) >= 1)
    => /\ 0 <= index /\ index < Len(data)
       /\ get_page_data(index) /= << >>
       /\ current_page(index) <= pages

\* C17: advancing from cursor 0 for as long as Next is enabled, Next ends
\* up disabled, and once it is (no render or edit having failed) the slices
\* handed out, the first one included, add up to the dataset in order.
C17_AdvanceCoversDataset ==
    /\ (message.sent ~> next_page_disabled)
    /\ []((next_page_disabled /\ ~failed) => displayed = data)

C17_Witness ==
    /\ next_page_disabled
    /\ ~failed
    /\ Len(data) = 45
    /\ per_page = 20
    /\ index = 40
    /\ displayed = data
    /\ inflight = << >>

PairOps == {<<"next_page", "previous_page">>, <<"previous_page", "next_page">>}

\* C18: an advance followed by a retreat, or a retreat followed by an
\* advance, leaves the cursor, the two flags and the slice as the
\* transition before the pair left them, also past either end.
C18_AdvanceRetreatInverse ==
    (Len(trail) = 3 /\ trail[1].op \in {"previous_page", "next_page"}
        /\ <<trail[2].op, trail[3].op>> \in PairOps)
    => /\ trail[3].index = trail[1].index
       /\ trail[3].previous = trail[1].previous
       /\ trail[3].next = trail[1].next
       /\ trail[3].items = trail[1].items

C18_Witness ==
    /\ Len(trail) = 3
    /\ trail[1].op = "next_page"
    /\ trail[2].op = "next_page"
    /\ trail[3].op = "previous_page"
    /\ trail[1].index >= Len(data)
    /\ trail[3].index = trail[1].index
    /\ Len(data) >= 1

\* C19: a failure does not undo the handler's work: when the render fails
\* the cursor stays moved and the flags stay recomputed, and when the awaited
\* edit fails nothing of the view changes; the cursor can then differ from
\* the cursor of the page the message shows.
C19_FailureKeepsCursor ==
    [][/\ (ButtonStep /\ raised' = "render")
            => /\ index' = IF lastOp' = "next_page" THEN index + per_page
                           ELSE index - per_page
               /\ previous_page_disabled' = (index' <= 0)
               /\ next_page_disabled' = (index' >= Len(data) - per_page)
       /\ (Len(inflight') < Len(inflight) /\ raised' = "edit_message")
            => /\ UNCHANGED <<index, previous_page_disabled, next_page_disabled>>
               /\ message' = message]_vars

C19_Witness ==
    /\ raised = "edit_message"
    /\ lastOp = "next_page"
    /\ inflight = << >>
    /\ message.sent
    /\ message.cursor /= index
    /\ next_page_disabled /= message.next_disabled

(* ---------------------------------------------------------------------- *)
(* Properties of Page                                                      *)
(* ---------------------------------------------------------------------- *)
GivenBoth(a) ==
    \/ a.embed /= None /\ a.embeds /= UNSET
    \/ a.attachment /= None /\ a.attachments /= UNSET

\* C7: a Page call that gives both the singular and the plural form of a
\* field raises the conflict error and builds no object, whatever the
\* plural value is (an empty list included).
C7_ConflictAlwaysRaises ==
    (page_args.called /\ GivenBoth(page_args.args))
    => (page_raised = "ValueError" /\ ~page_dict.built)

C7_Witness ==
    /\ page_args.called
    /\ page_args.args.embed /= None
    /\ page_args.args.embeds = PyList(<< >>)
    /\ page_args.args.attachment = None
    /\ page_raised = "ValueError"

Provided(a, k) ==
    CASE k = "content" -> a.content /= UNSET
      [] k = "embeds" -> a.embed /= None \/ a.embeds /= UNSET
      [] k = "attachments" -> a.attachment /= None \/ a.attachments /= UNSET

Expected(a, k) ==
    CASE k = "content" -> a.content
      [] k = "embeds" ->
            IF a.embed /= None THEN PyList(<<a.embed.name>>) ELSE a.embeds
      [] k = "attachments" ->
            IF a.attachment /= None THEN PyList(<<a.attachment.name>>)
            ELSE a.attachments

\* C8: for every accepted argument combination unpack() has a key exactly
\* for the fields that were provided, carrying the plural value or the
\* one-element list made from the singular value; other keys are absent.
C8_UnpackHasExactlyProvided ==
    unpacked.unpacked =>
        /\ page_raised = "none"
        /\ \A k \in PageKeys :
            /\ (k \in unpacked.keys) <=> Provided(page_args.args, k)
            /\ (k \in unpacked.keys) =>
                    unpacked.value[k] = Expected(page_args.args, k)

C8_Witness ==
    /\ unpacked.unpacked
    /\ page_args.args.embed /= None
    /\ page_args.args.content = PyStr("")
    /\ unpacked.keys = {"content", "embeds"}
    /\ Len(unpacked.value["embeds"].l) = 1

(* ---------------------------------------------------------------------- *)
(* Properties of the ordering                                              *)
(* ---------------------------------------------------------------------- *)
\* the order the records are meant to come out in: a numeric key ranks
\* above a textual one, otherwise keys of one kind compare among themselves
RanksAtLeast(a, b) ==
    IF a.kind /= b.kind THEN a.kind = "int" ELSE ~KeyLt(a, b)

WithKey(l, key) == SelectSeq(l, LAMBDA e : sorter(e) = key)

\* C9: building the browser succeeds for every dataset, mixed ones
\* included, and the records come out descending by key, numeric keys before
\* textual ones, records with the same key in their original order.
C9_MixedIdsSortNumericFirst ==
    sort_raised /= "pending" =>
        /\ sort_raised = "none"
        /\ Len(sort_output) = Len(sort_input)
        /\ \A k \in 1..(Len(sort_output) - 1) :
                RanksAtLeast(sorter(sort_output[k]), sorter(sort_output[k + 1]))
        /\ \A e \in SortableExperiments :
                WithKey(sort_output, sorter(e)) = WithKey(sort_input, sorter(e))

(* ---------------------------------------------------------------------- *)
(* Properties of the lookup                                                *)
(* ---------------------------------------------------------------------- *)
Score(e) ==
    [label |-> ratio[<<lower(e.label), lower(query)>>],
     id |-> ratio[<<e.id, lower(query)>>]]

Reaches(e) == Score(e).label >= 85 \/ Score(e).id >= 85
Exceeds(e) == Score(e).label > 85 \/ Score(e).id > 85

Hits(Match(_)) == {k \in 1..Len(build) : Match(build[k])}
First(S) == CHOOSE k \in S : \A j \in S : k <= j

LookupAnswers(Match(_)) ==
    (answer.kind /= "pending" /\ query /= << >>) =>
        IF Hits(Match) = {}
        THEN answer.kind = "text"
        ELSE answer.kind = "embed" /\ answer.experiment = build[First(Hits(Match))]

\* C10 as stated: the lookup answers with the first record, in the
\* dataset's own order, whose score reaches 85 (score >= 85) on the
\* lowercased label or on the raw id, and with "not found" exactly when no
\* record does.
C10_FirstRecordReaching85 == LookupAnswers(Reaches)

\* C10 as amended: the same with a score strictly above 85 (score > 85).
C10_FirstRecordAbove85 == LookupAnswers(Exceeds)

C10_Witness ==
    /\ answer.kind = "embed"
    /\ Len(build) = 2
    /\ build[1] /= build[2]
    /\ Exceeds(build[1])
    /\ Exceeds(build[2])
    /\ answer.experiment = build[1]

(* ---------------------------------------------------------------------- *)
(* Specifications                                                          *)
(* ---------------------------------------------------------------------- *)
SortIdle ==
    /\ sort_input = << >>
    /\ sort_output = << >>
    /\ sort_raised = "idle"

LookupIdle ==
    /\ build = << >>
    /\ query = << >>
    /\ ratio = << >>
    /\ answer = [kind |-> "idle"]

Init == PagingInit /\ HistIdle /\ PageIdle /\ SortIdle /\ LookupIdle

Next ==
    \/ reply /\ UNCHANGED histVars
    \/ previous_page /\ UNCHANGED histVars
    \/ next_page /\ UNCHANGED histVars
    \/ edit_message_done /\ UNCHANGED histVars

Spec == Init /\ [][Next]_vars

\* buttons pressed only while the view holds them enabled
NextGuarded ==
    \/ reply /\ UNCHANGED histVars
    \/ ~previous_page_disabled /\ previous_page /\ UNCHANGED histVars
    \/ ~next_page_disabled /\ next_page /\ UNCHANGED histVars
    \/ edit_message_done /\ UNCHANGED histVars

SpecGuarded == Init /\ [][NextGuarded]_vars

\* a session started at cursor 0 in which only Next is pressed, while enabled
InitAdvance == Init /\ starting_index = 0

Advance == ~next_page_disabled /\ next_page /\ RecordDisplayed

Respond == edit_message_done /\ RecordDisplayed

NextAdvance ==
    \/ reply /\ RecordDisplayed
    \/ Advance
    \/ Respond

\* a press of the enabled button is handled, and an awaited response arrives
SpecAdvance ==
    InitAdvance /\ [][NextAdvance]_vars /\ WF_vars(Advance) /\ WF_vars(Respond)

\* every session, with the view after each handler recorded
NextPairs ==
    \/ reply /\ RecordTrail
    \/ previous_page /\ RecordTrail
    \/ next_page /\ RecordTrail
    \/ edit_message_done /\ RecordTrail

SpecPairs == Init /\ [][NextPairs]_vars

InitPage == PagingIdle /\ PageIdle /\ SortIdle /\ LookupIdle

NextPage == PageConstruct \/ PageUnpack

SpecPage == InitPage /\ [][NextPage]_vars

InitSort == PagingIdle /\ PageIdle /\ SortInit /\ LookupIdle

NextSort == ExperimentBrowserView__init__

SpecSort == InitSort /\ [][NextSort]_vars

InitLookup == PagingIdle /\ PageIdle /\ SortIdle /\ LookupInit

NextLookup == experiments

SpecLookup == InitLookup /\ [][NextLookup]_vars

====
